---- MODULE Spec2Model ----
(***************************************************************************)
(* Model of src/app.py: a Flask application with one route, "/", whose     *)
(* view function home() draws one element of the module-level list quotes  *)
(* with random.choice and returns render_template('index.html', message).  *)
(*                                                                         *)
(* Every request runs home() in its own frame (its own local `message`);   *)
(* the server may run several requests at once, so the two statements of   *)
(* home() are separate steps that interleave freely between requests.      *)
(***************************************************************************)
EXTENDS Integers, Sequences, FiniteSets

\* ---------------------------------------------------------------- bounds

\* Number of requests to "/" the clients send in one run.
MaxRequests == 2

Requests == 1..MaxRequests

\* ------------------------------------------------------- program constants

\* app.py:6-12, the literal list (the emoji and typographic punctuation of
\* the source strings are written out in ASCII; the five strings stay distinct).
SourceQuotes ==
    << "(bulb) Believe in yourself - you're unstoppable!",
       "(rocket) Every great dream begins with a dreamer.",
       "(fire) The best time to start was yesterday. The next best time is now.",
       "(star) Code. Deploy. Repeat. Success follows consistency.",
       "(target) Focus on progress, not perfection." >>

\* The quote lists the process may be started with: the literal of the source
\* and its non-empty prefixes (the list is a literal, so the size-1 and size-2
\* configurations are reached by editing it, never at run time).
QuoteLists == { SubSeq(SourceQuotes, 1, n) : n \in 1..Len(SourceQuotes) }

\* Values of a frame's locals before they are assigned.
NoMessage == "<unassigned>"
NoResponse == [status |-> 0, body |-> << >>]

\* ------------------------------------------------------------------ state

VARIABLES
    quotes,     \* app.py:6   the module-level list
    quotes0,    \* the value quotes had when the module was imported
    pc,         \* per request: "idle", "line16", "line17", "returned" or "raised"
    message,    \* per request: home()'s local variable, app.py:16
    response,   \* per request: what the server answered, app.py:17
    sent,       \* the responses in the order the server sent them
    rng         \* the process-wide generator of module random: how many draws
                \* have advanced its internal state since startup

vars == << quotes, quotes0, pc, message, response, sent, rng >>

Range(s) == { s[i] : i \in DOMAIN s }

\* ------------------------------------------------------------ pure parts

\* Faulty variants of random.choice, used to show that the properties below
\* depend on it.
\* ... a draw that can also give a string that is not in the list.
choice_with_fallback(seq) == { seq[i] : i \in 1..Len(seq) } \cup { "No quote available" }

\* ... a draw over one index too few (the last element is never chosen).
choice_skip_last(seq) == { seq[i] : i \in 1..(Len(seq) - 1) }

\* ... a draw that avoids the quotes already sent to a client.
choice_no_repeat(seq) ==
    { seq[i] : i \in 1..Len(seq) } \ UNION { Range(sent[k].body) : k \in DOMAIN sent }

\* random.choice(seq), app.py:16: the results it can give. The generator's
\* seed is not known to the program, so the draw is a free choice of an index
\* of seq; the result is always seq[i] for an index i of seq. The call also
\* advances the generator shared by the whole process: see rng in Select.
choice(seq) == { seq[i] : i \in 1..Len(seq) }

\* render_template('index.html', message=m), app.py:17. The template file is
\* not among the sources; it is a fixed HTML skeleton with one placeholder
\* for the variable `message`.
render_template(m) == << "<html>", m, "</html>" >>

\* The page the framework answers with when the view function raises.
error_page == << "500 Internal Server Error" >>

\* The quote strings a response body holds.
quotes_in(body) == { i \in DOMAIN body : body[i] \in Range(quotes) }

\* ---------------------------------------------------------------- actions

Init ==
    /\ quotes \in QuoteLists
    /\ quotes0 = quotes
    /\ pc = [r \in Requests |-> "idle"]
    /\ message = [r \in Requests |-> NoMessage]
    /\ response = [r \in Requests |-> NoResponse]
    /\ sent = << >>
    /\ rng = 0

\* app.py:14-15: a GET of "/" arrives and is routed to home().
Route(r) ==
    /\ pc[r] = "idle"
    /\ pc' = [pc EXCEPT ![r] = "line16"]
    /\ UNCHANGED << quotes, quotes0, message, response, sent, rng >>

\* Faulty variants of line 16.
\* ... the chosen quote is taken out of the list (a draw without replacement).
Select_pop(r, q) ==
    /\ pc[r] = "line16"
    /\ q \in choice(quotes)
    /\ message' = [message EXCEPT ![r] = q]
    /\ quotes' = SelectSeq(quotes, LAMBDA x : x # q)
    /\ pc' = [pc EXCEPT ![r] = "line17"]
    /\ UNCHANGED << quotes0, response, sent >>
    /\ rng' = rng + 1

\* ... the list is reordered so that the chosen quote comes first
\* (random.shuffle(quotes); message = quotes[0]).
Select_shuffle(r, q) ==
    /\ pc[r] = "line16"
    /\ q \in choice(quotes)
    /\ message' = [message EXCEPT ![r] = q]
    /\ quotes' = << q >> \o SelectSeq(quotes, LAMBDA x : x # q)
    /\ pc' = [pc EXCEPT ![r] = "line17"]
    /\ UNCHANGED << quotes0, response, sent >>
    /\ rng' = rng + 1

\* app.py:16: message = random.choice(quotes), with the draw giving q. The
\* draw reads the module-level generator and leaves it in its next state.
Select(r, q) ==
    /\ pc[r] = "line16"
    /\ q \in choice(quotes)
    /\ message' = [message EXCEPT ![r] = q]
    /\ pc' = [pc EXCEPT ![r] = "line17"]
    /\ UNCHANGED << quotes, quotes0, response, sent >>
    /\ rng' = rng + 1

\* app.py:16 for any draw.
Line16(r) == \E q \in choice(quotes) : Select(r, q)

\* Faulty variant of line 17: `message` is shared by the requests (a global
\* instead of a local), so the page can carry what another request selected.
RenderOk_shared(r) ==
    /\ pc[r] = "line17"
    /\ \E o \in Requests :
          /\ message[o] # NoMessage
          /\ response' = [response EXCEPT
                            ![r] = [status |-> 200, body |-> render_template(message[o])]]
          /\ sent' = Append(sent, [req |-> r, status |-> 200,
                                   body |-> render_template(message[o])])
    /\ pc' = [pc EXCEPT ![r] = "returned"]
    /\ UNCHANGED << quotes, quotes0, message, rng >>

\* app.py:17: the template renders and home() returns the page; the framework
\* sends it with status 200.
RenderOk(r) ==
    /\ pc[r] = "line17"
    /\ response' = [response EXCEPT
                      ![r] = [status |-> 200, body |-> render_template(message[r])]]
    /\ sent' = Append(sent, [req |-> r, status |-> 200,
                             body |-> render_template(message[r])])
    /\ pc' = [pc EXCEPT ![r] = "returned"]
    /\ UNCHANGED << quotes, quotes0, message, rng >>

\* Faulty variants of the failure path of line 17.
\* ... the exception is caught and the bare message returned as a normal page
\* (try: ... except Exception: return message).
RenderFail_swallow(r) ==
    /\ pc[r] = "line17"
    /\ response' = [response EXCEPT ![r] = [status |-> 200, body |-> << message[r] >>]]
    /\ sent' = Append(sent, [req |-> r, status |-> 200, body |-> << message[r] >>])
    /\ pc' = [pc EXCEPT ![r] = "raised"]
    /\ UNCHANGED << quotes, quotes0, message, rng >>

\* ... the exception is caught and the selection tried again.
RenderFail_retry(r) ==
    /\ pc[r] = "line17"
    /\ pc' = [pc EXCEPT ![r] = "line16"]
    /\ UNCHANGED << quotes, quotes0, message, response, sent, rng >>

\* app.py:17: render_template raises (template missing or broken); home() has
\* no handler, so the framework answers this request with status 500.
RenderFail(r) ==
    /\ pc[r] = "line17"
    /\ response' = [response EXCEPT ![r] = [status |-> 500, body |-> error_page]]
    /\ sent' = Append(sent, [req |-> r, status |-> 500, body |-> error_page])
    /\ pc' = [pc EXCEPT ![r] = "raised"]
    /\ UNCHANGED << quotes, quotes0, message, rng >>

\* One step of one request's call of home().
home(r) == Line16(r) \/ RenderOk(r) \/ RenderFail(r)

\* Normal service: the template is present and well formed, so line 17 returns.
Next == \E r \in Requests : Route(r) \/ Line16(r) \/ RenderOk(r)

Spec == Init /\ [][Next]_vars

\* Service in which rendering may also fail, request by request.
FaultNext == \E r \in Requests : Route(r) \/ Line16(r) \/ RenderOk(r) \/ RenderFail(r)

FaultSpec == Init /\ [][FaultNext]_vars

\* A request that has entered home() runs to the end of the call: the worker
\* that took it executes the two statements without waiting for anything.
FairFaultSpec ==
    /\ Init
    /\ [][FaultNext]_vars
    /\ \A r \in Requests : WF_vars(home(r))

\* ------------------------------------------------------------- properties

\* How many responses the server has sent to request r.
ResponsesTo(r) == Cardinality({ i \in DOMAIN sent : sent[i].req = r })

\* Whether request r has been answered.
Answered(r) == pc[r] \in { "returned", "raised" }

\* Strings that could show up as a message: the quotes of the source, the
\* unassigned marker and one string that is in no list.
Strings == Range(SourceQuotes) \cup { NoMessage, "No quote available" }

\* The quotes request r, standing at line 16, may select in the current state.
MayReturn(r) == { q \in Strings : ENABLED Select(r, q) }

\* C1: every response to a request of "/" has status 200 and a body holding
\* exactly one quote string, which is a member of the quote list; no message
\* outside the list is ever selected or sent.
C1_ResponseIs200WithOneListedQuote ==
    /\ \A r \in Requests :
          /\ message[r] # NoMessage => message[r] \in Range(quotes)
          /\ Answered(r) =>
                /\ response[r].status = 200
                /\ Cardinality(quotes_in(response[r].body)) = 1
                /\ message[r] \in Range(response[r].body)
    /\ \A i \in DOMAIN sent :
          /\ sent[i].status = 200
          /\ Cardinality(quotes_in(sent[i].body)) = 1
          /\ Range(sent[i].body) \cap Strings \subseteq Range(quotes)

\* C1 witness: all requests answered, one after the other, with pages that do
\* not all carry the same quote.
C1_Witness ==
    /\ \A r \in Requests : pc[r] = "returned"
    /\ Len(sent) = MaxRequests
    /\ \E i, j \in DOMAIN sent : sent[i].body # sent[j].body

\* C2: in every reachable state, failed requests included, the quote list is
\* non-empty and equal, element for element and in order, to its startup value.
C2_QuoteListImmutable ==
    /\ Len(quotes) >= 1
    /\ Len(quotes) = Len(quotes0)
    /\ \A i \in DOMAIN quotes0 : quotes[i] = quotes0[i]

\* C2 witness: one request was answered with a page and one failed.
C2_Witness ==
    /\ \E r \in Requests : pc[r] = "returned"
    /\ \E r \in Requests : pc[r] = "raised"
    /\ Len(quotes0) = Len(SourceQuotes)

\* C3: whatever the earlier requests were and whatever quotes they returned,
\* the set of quotes the next selection may give is the same: the whole list.
C3_SelectionIndependentOfHistory ==
    \A r \in Requests : pc[r] = "line16" => MayReturn(r) = Range(quotes0)

\* C3 witness: a request is about to select after every other request was
\* answered with a quote, in a list of three or more.
C3_Witness ==
    /\ Len(quotes) >= 3
    /\ \E r \in Requests :
          /\ pc[r] = "line16"
          /\ \A o \in Requests \ { r } : pc[o] = "returned" /\ ResponsesTo(o) = 1

\* What a step of home() for request r may touch besides the generator: r's
\* own frame, and at most r's own response added to what was sent.
OnlyOwnFrameAndResponse(r) ==
    /\ quotes' = quotes
    /\ quotes0' = quotes0
    /\ \A o \in Requests \ { r } :
          /\ pc'[o] = pc[o]
          /\ message'[o] = message[o]
          /\ response'[o] = response[o]
    /\ \/ sent' = sent
       \/ /\ Len(sent') = Len(sent) + 1
          /\ SubSeq(sent', 1, Len(sent)) = sent
          /\ sent'[Len(sent')].req = r

\* C4 as stated: a step of home() for request r leaves every piece of server
\* state unchanged, the process-wide random generator included; it changes
\* only r's own frame and adds at most r's own response.
C4_Original ==
    [][ \A r \in Requests :
          home(r) => (OnlyOwnFrameAndResponse(r) /\ rng' = rng) ]_vars

\* C4 amended: a step of home() for request r changes nothing but r's own
\* frame, r's own response and the random generator: the quote list, the
\* startup record and every other request's frame and response stay as they
\* were, whether the step succeeds or fails; the selection at line 16 advances
\* the generator by one draw and the rendering at line 17 leaves it alone.
C4_NoSideEffectsButGenerator ==
    [][ \A r \in Requests :
          home(r) =>
             /\ OnlyOwnFrameAndResponse(r)
             /\ pc[r] = "line16" => rng' = rng + 1
             /\ pc[r] = "line17" => rng' = rng ]_vars

\* C4 witness: every request went through home(), one with a page sent and
\* one with a failure, each has its own response, and the generator stands
\* one draw further for each of them.
C4_Witness ==
    /\ \E r \in Requests : pc[r] = "returned" /\ response[r].status = 200
    /\ \E r \in Requests : pc[r] = "raised" /\ response[r].status = 500
    /\ \A r \in Requests : Answered(r) /\ ResponsesTo(r) = 1
    /\ rng = MaxRequests

\* C5: a request whose rendering failed is answered once, with status 500 and
\* a body holding no quote; it is not run again; the quote list is as at
\* startup and every other request can still take its next step.
C5_RenderFailureIs500 ==
    \A r \in Requests :
       pc[r] = "raised" =>
          /\ response[r].status = 500
          /\ quotes_in(response[r].body) = { }
          /\ message[r] \notin Range(response[r].body)
          /\ ResponsesTo(r) = 1
          /\ quotes = quotes0
          /\ \A o \in Requests \ { r } :
                /\ pc[o] = "idle" => ENABLED Route(o)
                /\ pc[o] = "line16" => MayReturn(o) = Range(quotes)
                /\ pc[o] = "line17" => ENABLED RenderOk(o)

\* C5 witness: a request failed and a request handled after it got its page.
C5_Witness ==
    \E i, j \in DOMAIN sent :
       /\ i < j
       /\ sent[i].status = 500
       /\ pc[sent[i].req] = "raised"
       /\ sent[j].status = 200

\* C6: with a quote list of size 1, every selection gives that quote and
\* every page sent carries it.
C6_SingleQuoteAlwaysReturned ==
    Len(quotes) = 1 =>
       /\ \A r \in Requests :
             /\ pc[r] = "line17" => message[r] = quotes[1]
             /\ Answered(r) => response[r] = [status |-> 200,
                                              body |-> render_template(quotes[1])]
       /\ \A i \in DOMAIN sent : sent[i].body = render_template(quotes[1])

\* C6 witness: a list of size 1 and every request answered.
C6_Witness ==
    /\ Len(quotes) = 1
    /\ \A r \in Requests : Answered(r)
    /\ Len(sent) = MaxRequests

\* C8: under every interleaving of the steps of the requests, each page holds
\* a quote of the list, the page of a request holds the quote that request
\* selected, and the quote list is unchanged.
C8_ConcurrentRequestsKeepTheirQuote ==
    /\ quotes = quotes0
    /\ \A r \in Requests :
          Answered(r) =>
             /\ message[r] \in Range(quotes)
             /\ response[r].body = render_template(message[r])
             /\ quotes_in(response[r].body) # { }
    /\ \A i \in DOMAIN sent : sent[i].body = render_template(message[sent[i].req])

\* C8 witness: a request was answered while another, which had selected a
\* different quote, was between its selection and its rendering.
C8_Witness ==
    \E r, o \in Requests :
       /\ pc[r] = "returned"
       /\ pc[o] = "line17"
       /\ message[o] # message[r]
       /\ sent[Len(sent)].req = r

\* C9: in every reachable state every element of the list can still be
\* returned: a request not yet routed can be routed, a request at line 16 can
\* select the element, and a request that selected it can send it.
C9_EveryQuoteSelectable ==
    \A q \in Range(quotes0) :
       \A r \in Requests :
          /\ pc[r] = "idle" => ENABLED Route(r)
          /\ pc[r] = "line16" => ENABLED Select(r, q)
          /\ (pc[r] = "line17" /\ message[r] = q) =>
                ENABLED (RenderOk(r) /\ response'[r].body = render_template(q))

\* C9 witness: the last element of the full list was returned after an
\* earlier request had already returned it.
C9_Witness ==
    /\ Len(quotes) = Len(SourceQuotes)
    /\ \E i, j \in DOMAIN sent :
          /\ i < j
          /\ sent[i].body = render_template(quotes[Len(quotes)])
          /\ sent[j].body = sent[i].body

\* Position of a request in its call, for "never goes back".
Rank(p) ==
    CASE p = "idle" -> 0
      [] p = "line16" -> 1
      [] p = "line17" -> 2
      [] OTHER -> 3

\* C10: a request that has entered home() is eventually answered, exactly
\* once, with 200 or 500; it never goes back to an earlier statement, and its
\* next step never waits for another request.
C10_RequestCompletes ==
    /\ \A r \in Requests :
          (pc[r] = "line16") ~>
             (Answered(r) /\ ResponsesTo(r) = 1 /\ response[r].status \in { 200, 500 })
    /\ [](\A r \in Requests :
             /\ ResponsesTo(r) <= 1
             /\ pc[r] \in { "line16", "line17" } => ENABLED home(r))
    /\ [][ \A r \in Requests : Rank(pc'[r]) >= Rank(pc[r]) ]_vars

\* C10 witness: a request was answered, with its one response, while another
\* request that has entered home() has not selected yet.
C10_Witness ==
    \E r, o \in Requests :
       /\ Answered(r)
       /\ ResponsesTo(r) = 1
       /\ pc[o] = "line16"

====
